---- MODULE Spec2Model ----
(***************************************************************************)
(* Model of src/wake-word-detection.js: the closure created by             *)
(* createWakeWordDetection, its recognition-engine handlers, its timers    *)
(* and its public API.                                                     *)
(*                                                                         *)
(* Strings are sequences of one-character strings.  Time is kept in the    *)
(* frame of the present instant: Date.now() is DateNow, a timestamp taken  *)
(* d milliseconds ago is DateNow - d, and a timer holds the milliseconds   *)
(* left until it is due.  Time passing (Tick) shifts every timestamp and   *)
(* every timer by the elapsed amount.                                      *)
(***************************************************************************)
EXTENDS Integers, Sequences, FiniteSets, TLC

(***************************************************************************)
(* Bounds of the model                                                     *)
(***************************************************************************)
\* longest transcript the engine delivers
MaxLen == 2
\* most calls and spontaneous engine events at one instant
MaxActs == 2

(***************************************************************************)
(* Program constants                                                       *)
(***************************************************************************)
WAKE_WORD_COOLDOWN_MS == 2000
ERROR_COOLDOWN_MS == 1000
MIN_COMMAND_LENGTH == 1
MAX_RESTART_ATTEMPTS == 5
RESTART_DELAY_MS == 1000
INACTIVITY_TIMEOUT_MS == 30000
QUICK_COMMAND_BUFFER_MS == 1000
commandTimeoutMs == 3000
END_RESTART_DELAY_MS == 100
WATCHDOG_RESTART_DELAY_MS == 100
START_RETRY_DELAY_MS == 50
STOPPING_DELAY_MS == 50
COUNTDOWN_STEP_MS == 1000
DateNow == 0

\* the application and the engine act once per TickMs, the unit of the
\* program's second-scale delays
TickMs == RESTART_DELAY_MS
\* a timestamp is aged no further than the spans it is compared with
WakeWordHorizon == (IF WAKE_WORD_COOLDOWN_MS > commandTimeoutMs
                    THEN WAKE_WORD_COOLDOWN_MS ELSE commandTimeoutMs) + 1
ErrorHorizon == ERROR_COOLDOWN_MS

(***************************************************************************)
(* Strings                                                                 *)
(***************************************************************************)
Chars == {"W", "c", " "}
EmptyStr == << >>
Transcripts == UNION {[1..n -> Chars] : n \in 0..MaxLen}

\* String.prototype.toLowerCase on one character
LowerChar(ch) == IF ch = "W" THEN "w" ELSE IF ch = "C" THEN "c" ELSE ch
ToLower(str) == [i \in 1..Len(str) |-> LowerChar(str[i])]

IsSpace(ch) == ch = " "
RECURSIVE TrimStart(_)
TrimStart(str) ==
  IF str # EmptyStr /\ IsSpace(Head(str)) THEN TrimStart(Tail(str)) ELSE str
RECURSIVE TrimEnd(_)
TrimEnd(str) ==
  IF str # EmptyStr /\ IsSpace(str[Len(str)])
  THEN TrimEnd(SubSeq(str, 1, Len(str) - 1)) ELSE str
\* String.prototype.trim
Trim(str) == TrimEnd(TrimStart(str))

\* String.prototype.indexOf: zero-based position of the first occurrence, -1 if none
Occurrences(text, word) ==
  {i \in 0..(Len(text) - Len(word)) : SubSeq(text, i + 1, i + Len(word)) = word}
IndexOf(text, word) ==
  IF Occurrences(text, word) = {} THEN -1
  ELSE CHOOSE i \in Occurrences(text, word) : \A j \in Occurrences(text, word) : i <= j
\* String.prototype.includes
Includes(text, word) == IndexOf(text, word) # -1
\* String.prototype.substring(from)
Substring(text, from) == SubSeq(text, from + 1, Len(text))
\* truthiness of a string
Truthy(str) == str # EmptyStr

(***************************************************************************)
(* State                                                                   *)
(***************************************************************************)
VARIABLES
  \* host and configuration
  hostSupported,        \* window.SpeechRecognition || window.webkitSpeechRecognition
  wakeWord,             \* config.wakeWord
  language,             \* config.language
  \* the closure's variables
  recognition,          \* Null, or the state of the current engine handle
  recognitionLang,      \* recognition.lang
  isListening, isPaused, lastWakeWordTime, currentCommand, isCommandComplete,
  wakeWordDetected, commandTimeout, fullTranscript, lastErrorTime,
  isProcessingCommand, interimTranscript, restartTimeout, isStopping,
  pendingRestart, inactivityTimeout, commandBuffer, commandMode, countdownInterval, waitingForNextFinal, restartAttempts,
  \* the host's timer queue and superseded engine handles that still have to end
  timers, oldEngines,
  \* milliseconds since the last instant at which the environment acted
  phase,
  \* calls and spontaneous engine events at the present instant
  acts,
  \* observation of the last step and of the current capture cycle
  lastOp, evTranscript, evFinal, calls, engineStarts, engineStops, startOnBusy,
  entered,
  scheduledDelay, restartsFired, cycleOpen, cycleSignals, cycleEnded,
  callerStopped, watchdogFired, wasInCapture, wasCooled, awaitNext, wasAwaiting,
  \* exhausted: "stopped" once the restart attempts ran out, "restarted" once
  \* start() started the engine after that, "no" otherwise
  exhausted,
  \* callerOff: the application has not called start() since its last stop()
  \* or since construction
  callerOff,
  \* pre: the step's starting state; endSeen: the timer that fired was armed
  \* by an engine end or a deferred start() the application has not answered
  pre, endSeen,
  \* the call of createWakeWordDetection: its options, what it threw, what it returned
  options, thrown, handle

vars == <<hostSupported, wakeWord, language, recognition, recognitionLang,
          isListening, isPaused, lastWakeWordTime, currentCommand,
          isCommandComplete, wakeWordDetected, commandTimeout, fullTranscript,
          lastErrorTime, isProcessingCommand, interimTranscript, restartTimeout,
          isStopping, pendingRestart, inactivityTimeout, commandBuffer,
          commandMode, countdownInterval, waitingForNextFinal,
          restartAttempts, timers, oldEngines, phase, acts, lastOp,
          evTranscript, evFinal, calls, engineStarts, engineStops, startOnBusy,
          entered, scheduledDelay,
          restartsFired, cycleOpen, cycleSignals, cycleEnded, callerStopped,
          watchdogFired, wasInCapture, wasCooled, awaitNext, wasAwaiting,
          exhausted, callerOff,
          pre, endSeen, options, thrown, handle>>

Null == "null"
EngineStates == {"idle", "running", "stopping"}

\* the whole state as one record, so that a function of the program is an
\* operator from state to state
St ==
  [hostSupported |-> hostSupported, wakeWord |-> wakeWord, language |-> language,
   recognition |-> recognition, recognitionLang |-> recognitionLang,
   isListening |-> isListening, isPaused |-> isPaused,
   lastWakeWordTime |-> lastWakeWordTime, currentCommand |-> currentCommand,
   isCommandComplete |-> isCommandComplete, wakeWordDetected |-> wakeWordDetected,
   commandTimeout |-> commandTimeout, fullTranscript |-> fullTranscript,
   lastErrorTime |-> lastErrorTime, isProcessingCommand |-> isProcessingCommand,
   interimTranscript |-> interimTranscript, restartTimeout |-> restartTimeout,
   isStopping |-> isStopping, pendingRestart |-> pendingRestart,
   inactivityTimeout |-> inactivityTimeout, commandBuffer |-> commandBuffer,
   commandMode |-> commandMode,
   countdownInterval |-> countdownInterval,
   waitingForNextFinal |-> waitingForNextFinal,
   restartAttempts |-> restartAttempts, timers |-> timers,
   oldEngines |-> oldEngines, phase |-> phase, acts |-> acts, lastOp |-> lastOp,
   evTranscript |-> evTranscript, evFinal |-> evFinal, calls |-> calls,
   engineStarts |-> engineStarts, engineStops |-> engineStops,
   startOnBusy |-> startOnBusy,
   entered |-> entered, scheduledDelay |-> scheduledDelay,
   restartsFired |-> restartsFired, cycleOpen |-> cycleOpen,
   cycleSignals |-> cycleSignals, cycleEnded |-> cycleEnded,
   callerStopped |-> callerStopped, watchdogFired |-> watchdogFired,
   exhausted |-> exhausted, callerOff |-> callerOff,
   wasInCapture |-> wasInCapture, wasCooled |-> wasCooled,
   awaitNext |-> awaitNext, wasAwaiting |-> wasAwaiting,
   pre |-> pre, endSeen |-> endSeen, options |-> options,
   thrown |-> thrown, handle |-> handle]

\* a capture is in progress: the test the code makes at lines 259, 465 and 518
InCapture(s) == s.wakeWordDetected /\ ~s.isCommandComplete

(***************************************************************************)
(* Callbacks of the application (config.on...)                             *)
(***************************************************************************)
CallbackSignals == {"onCommand", "onCommandTimeout"}
Call(s, cb, arg) ==
  [s EXCEPT !.calls = Append(@, [cb |-> cb, arg |-> arg]),
            !.cycleSignals = IF s.cycleOpen /\ cb \in CallbackSignals
                             THEN @ + 1 ELSE @]
Called(cb) == {i \in 1..Len(calls) : calls[i].cb = cb}
CalledWith(cb, arg) == \E i \in Called(cb) : calls[i].arg = arg

(***************************************************************************)
(* Host timers: setTimeout / setInterval / clearTimeout / clearInterval    *)
(* A timer is [kind, due, held, x]: due is the time left, held says that   *)
(* the closure variable of that name refers to it, x is the value its      *)
(* callback closes over.  A handle that has fired or was cleared is inert, *)
(* and the code only tests a handle before clearing it, so the variable of *)
(* such a handle is modelled as FALSE.                                     *)
(***************************************************************************)
Release(ts, kind) ==
  [i \in 1..Len(ts) |-> IF ts[i].kind = kind THEN [ts[i] EXCEPT !.held = FALSE]
                        ELSE ts[i]]
setTimeout(s, kind, delay, held, x) ==
  [s EXCEPT !.timers =
     Append(IF held THEN Release(@, kind) ELSE @,
            [kind |-> kind, due |-> delay, held |-> held, x |-> x])]
clearTimeout(s, kind) ==
  [s EXCEPT !.timers = SelectSeq(@, LAMBDA t : ~(t.kind = kind /\ t.held))]
Pending(s, kind) == {i \in 1..Len(s.timers) : s.timers[i].kind = kind}

(***************************************************************************)
(* The recognition engine handle                                           *)
(***************************************************************************)
\* recognition.stop(): a running engine winds down and will emit end
recognitionStop(s) ==
  LET s1 == [s EXCEPT !.engineStops = @ + 1]
  IN IF s.recognition = "running" THEN [s1 EXCEPT !.recognition = "stopping"] ELSE s1
\* recognition.start(): throws InvalidStateError unless the handle is idle
recognitionStart(s) ==
  IF s.recognition = "idle"
  THEN [ok |-> TRUE,
        s |-> [s EXCEPT !.recognition = "running", !.engineStarts = @ + 1]]
  ELSE [ok |-> FALSE,
        s |-> [s EXCEPT !.engineStarts = @ + 1, !.startOnBusy = TRUE]]

(***************************************************************************)
(* Command capture                                                         *)
(***************************************************************************)
stopCommandListening(s) ==
  LET s1 == IF s.commandTimeout
            THEN [clearTimeout(s, "commandTimeout") EXCEPT !.commandTimeout = FALSE]
            ELSE s
  IN IF s1.countdownInterval
     THEN [clearTimeout(s1, "countdownInterval") EXCEPT !.countdownInterval = FALSE]
     ELSE s1

pauseCommandTimeout(s) ==
  LET s1 == IF s.commandTimeout
            THEN [clearTimeout(s, "commandTimeout") EXCEPT !.commandTimeout = FALSE]
            ELSE s
  IN IF s1.countdownInterval
     THEN [clearTimeout(s1, "countdownInterval") EXCEPT !.countdownInterval = FALSE]
     ELSE s1

startCommandListening(s) ==
  LET s1 == IF s.commandTimeout
            THEN [clearTimeout(s, "commandTimeout") EXCEPT !.commandTimeout = FALSE]
            ELSE s
      s2 == IF s1.countdownInterval
            THEN [clearTimeout(s1, "countdownInterval") EXCEPT !.countdownInterval = FALSE]
            ELSE s1
      \* setInterval: the callback closes over remainingTime
      s4 == [setTimeout(s2, "countdownInterval", COUNTDOWN_STEP_MS, TRUE, commandTimeoutMs)
               EXCEPT !.countdownInterval = TRUE]
  IN [setTimeout(s4, "commandTimeout", commandTimeoutMs, TRUE, 0)
        EXCEPT !.commandTimeout = TRUE]

resetToWakeWordListening(s) ==
  LET s1 == [s EXCEPT !.isCommandComplete = TRUE,
                      !.wakeWordDetected = FALSE,
                      !.isProcessingCommand = FALSE,
                      !.commandMode = FALSE,
                      !.waitingForNextFinal = FALSE]
      s2 == stopCommandListening(s1)
      s3 == [s2 EXCEPT !.currentCommand = EmptyStr,
                       !.fullTranscript = EmptyStr,
                       !.interimTranscript = EmptyStr]
  IN Call(s3, "onCommandTimeout", EmptyStr)

processCommand(s, commandText) ==
  IF ~s.isCommandComplete /\ s.wakeWordDetected
  THEN LET s1 == [s EXCEPT !.isCommandComplete = TRUE,
                           !.wakeWordDetected = FALSE,
                           !.isProcessingCommand = FALSE,
                           !.commandMode = FALSE,
                           !.waitingForNextFinal = FALSE]
           s2 == stopCommandListening(s1)
           s3 == IF Truthy(commandText) /\ Len(commandText) >= MIN_COMMAND_LENGTH
                 THEN Call(s2, "onCommand", commandText)
                 ELSE Call(s2, "onCommandTimeout", EmptyStr)
       IN [s3 EXCEPT !.currentCommand = EmptyStr,
                     !.fullTranscript = EmptyStr,
                     !.interimTranscript = EmptyStr]
  ELSE s

\* the text after the first occurrence of the wake word, or a fallback
extractCommandText(s, text) ==
  LET normalizedText == ToLower(Trim(text))
      normalizedWakeWord == ToLower(Trim(s.wakeWord))
      wakeWordIndex == IndexOf(normalizedText, normalizedWakeWord)
  IN IF wakeWordIndex # -1
     THEN Trim(Substring(normalizedText, wakeWordIndex + Len(normalizedWakeWord)))
     ELSE IF s.wakeWordDetected /\ Truthy(s.currentCommand)
     THEN s.currentCommand
     ELSE IF Truthy(s.commandBuffer) /\ ~s.wakeWordDetected
             /\ DateNow - s.lastWakeWordTime < QUICK_COMMAND_BUFFER_MS
     THEN s.commandBuffer
     ELSE IF s.commandMode /\ ~s.isCommandComplete
     THEN normalizedText
     ELSE EmptyStr

(***************************************************************************)
(* Session control                                                         *)
(***************************************************************************)
stop(s) ==
  IF s.recognition # Null
  THEN LET s1 == [recognitionStop([s EXCEPT !.isStopping = TRUE])
                    EXCEPT !.isListening = FALSE, !.isPaused = FALSE]
           s2 == IF s1.inactivityTimeout
                 THEN [clearTimeout(s1, "inactivityTimeout")
                         EXCEPT !.inactivityTimeout = FALSE]
                 ELSE s1
       IN setTimeout(s2, "stoppingClear", STOPPING_DELAY_MS, FALSE, 0)
  ELSE s

\* arming a new inactivity timer without cancelling the previous one
resetInactivityTimeout_NoClear(s) ==
  [setTimeout(s, "inactivityTimeout", INACTIVITY_TIMEOUT_MS, TRUE, 0)
     EXCEPT !.inactivityTimeout = TRUE]
resetInactivityTimeout(s) ==
  LET s1 == IF s.inactivityTimeout
            THEN [clearTimeout(s, "inactivityTimeout")
                    EXCEPT !.inactivityTimeout = FALSE]
            ELSE s
  IN [setTimeout(s1, "inactivityTimeout", INACTIVITY_TIMEOUT_MS, TRUE, 0)
        EXCEPT !.inactivityTimeout = TRUE]

\* an initialisation that does not test the host
initializeSpeechRecognition_Unchecked(s) ==
  [ok |-> TRUE, s |-> [s EXCEPT !.recognition = "idle"]]
\* returns whether a handle was created, and the state
initializeSpeechRecognition(s) ==
  IF ~s.hostSupported
  THEN [ok |-> FALSE, s |-> Call(s, "onError", <<"unsupported">>)]
  ELSE [ok |-> TRUE,
        s |-> [s EXCEPT
                 \* a superseded handle that has not ended keeps its handlers
                 !.oldEngines = IF s.recognition \in {"running", "stopping"}
                                THEN @ + 1 ELSE @,
                 !.recognition = "idle",
                 !.recognitionLang = s.language]]

start(s) ==
  IF s.isStopping
  THEN setTimeout(s, "startRetry", START_RETRY_DELAY_MS, FALSE, 1)
  ELSE LET r == IF s.recognition = Null THEN initializeSpeechRecognition(s)
                ELSE [ok |-> TRUE, s |-> s]
       IN IF ~r.ok THEN r.s
          ELSE LET s1 == [r.s EXCEPT !.currentCommand = EmptyStr,
                                     !.isCommandComplete = FALSE,
                                     !.isPaused = FALSE,
                                     !.wakeWordDetected = FALSE]
                   q == recognitionStart(s1)
               IN IF q.ok
                  THEN resetInactivityTimeout(
                         [q.s EXCEPT !.isListening = TRUE,
                                     !.exhausted = IF @ = "stopped" THEN "restarted"
                                                   ELSE @])
                  ELSE Call(q.s, "onError", <<"start">>)

pause(s) ==
  IF s.recognition # Null /\ s.isListening
  THEN [recognitionStop(s) EXCEPT !.isPaused = TRUE]
  ELSE s

\* recognition.start() is not guarded here: when it throws, the exception
\* reaches the caller and isPaused keeps its value
resume(s) ==
  IF s.recognition # Null /\ s.isPaused
  THEN LET q == recognitionStart(s)
       IN IF q.ok THEN [q.s EXCEPT !.isPaused = FALSE] ELSE q.s
  ELSE s

\* a change of wake word that keeps the capture in progress
setWakeWord_KeepCapture(s, newWakeWord) ==
  stop([s EXCEPT !.wakeWord = Trim(ToLower(newWakeWord)), !.pendingRestart = TRUE])
setWakeWord(s, newWakeWord) ==
  LET s1 == [s EXCEPT !.currentCommand = EmptyStr,
                      !.isCommandComplete = FALSE,
                      !.wakeWordDetected = FALSE,
                      !.isProcessingCommand = FALSE,
                      !.fullTranscript = EmptyStr,
                      !.interimTranscript = EmptyStr,
                      !.commandBuffer = EmptyStr]
      s2 == IF s1.commandTimeout
            THEN [clearTimeout(s1, "commandTimeout") EXCEPT !.commandTimeout = FALSE]
            ELSE s1
  IN stop([s2 EXCEPT !.wakeWord = Trim(ToLower(newWakeWord)),
                     !.pendingRestart = TRUE])

setLanguage(s, newLanguage) ==
  LET s1 == [s EXCEPT !.language = newLanguage]
  IN IF s1.recognition # Null
     THEN stop([s1 EXCEPT !.recognitionLang = newLanguage,
                          !.pendingRestart = TRUE])
     ELSE s1

isSupported(s) == s.hostSupported

(***************************************************************************)
(* Resilience: backoff restart                                             *)
(***************************************************************************)
\* a delay that grows by RESTART_DELAY_MS per attempt instead of doubling
BackoffDelay_Linear(attempts) == RESTART_DELAY_MS * (attempts + 1)
\* line 367
BackoffDelay(attempts) == RESTART_DELAY_MS * 2 ^ attempts

\* a cap that lets one attempt too many through
AtCap_OffByOne(attempts) == attempts > MAX_RESTART_ATTEMPTS
\* line 361
AtCap(attempts) == attempts >= MAX_RESTART_ATTEMPTS

restartRecognition(s) ==
  LET s1 == IF s.restartTimeout
            THEN [clearTimeout(s, "restartTimeout") EXCEPT !.restartTimeout = FALSE]
            ELSE s
  IN IF AtCap(s1.restartAttempts)
     THEN stop([s1 EXCEPT !.exhausted = "stopped"])
     ELSE LET delay == BackoffDelay(s1.restartAttempts)
          IN [setTimeout(s1, "restartTimeout", delay, TRUE, delay)
                EXCEPT !.restartTimeout = TRUE, !.scheduledDelay = delay,
                       !.exhausted = "no"]

(***************************************************************************)
(* Engine event handlers                                                   *)
(***************************************************************************)
\* recognition.onresult for the last result of the event
onresult(s, transcript, isFinal) ==
  LET s1 == resetInactivityTimeout([s EXCEPT !.restartAttempts = 0,
                                             !.restartsFired = 0,
                                             !.exhausted = "no",
                                             !.awaitNext = @ /\ ~isFinal])
      normalizedTranscript == ToLower(Trim(transcript))
      normalizedWakeWord == ToLower(s1.wakeWord)
      containsWakeWord == Includes(normalizedTranscript, normalizedWakeWord)
      s2 == IF containsWakeWord THEN Call(s1, "onWakeWordDetected", EmptyStr)
            ELSE s1
  IN IF containsWakeWord /\ isFinal /\ ~s2.isProcessingCommand
     THEN \* CASE 1: wake word in a final result
          IF DateNow - s2.lastWakeWordTime > WAKE_WORD_COOLDOWN_MS
          THEN LET s3 == [s2 EXCEPT !.lastWakeWordTime = DateNow,
                                    !.isCommandComplete = FALSE,
                                    !.wakeWordDetected = TRUE,
                                    !.isProcessingCommand = TRUE,
                                    !.commandMode = TRUE,
                                    !.entered = TRUE,
                                    !.cycleOpen = TRUE,
                                    !.cycleSignals = 0]
                   isOnlyWakeWord == Trim(normalizedTranscript) = normalizedWakeWord
               IN IF isOnlyWakeWord
                  THEN startCommandListening([s3 EXCEPT !.waitingForNextFinal = TRUE,
                                                        !.awaitNext = TRUE])
                  ELSE LET commandText == extractCommandText(s3, transcript)
                       IN IF Truthy(commandText)
                             /\ Len(commandText) >= MIN_COMMAND_LENGTH
                          THEN processCommand(
                                 Call([s3 EXCEPT !.currentCommand = commandText,
                                                 !.interimTranscript = commandText],
                                      "onTranscription", commandText),
                                 commandText)
                          ELSE resetToWakeWordListening(s3)
          ELSE s2
     ELSE IF s2.waitingForNextFinal /\ isFinal
     THEN \* CASE 2: the next final result after a wake word alone
          LET s3 == [s2 EXCEPT !.fullTranscript = transcript]
              commandText == Trim(transcript)
          IN IF Truthy(commandText) /\ Len(commandText) >= MIN_COMMAND_LENGTH
             THEN processCommand(
                    Call([s3 EXCEPT !.currentCommand = commandText,
                                    !.interimTranscript = commandText],
                         "onTranscription", commandText),
                    commandText)
             ELSE resetToWakeWordListening(s3)
     ELSE IF s2.wakeWordDetected /\ ~s2.isCommandComplete /\ ~isFinal
     THEN \* CASE 3: interim result during a capture
          LET s3 == Call([s2 EXCEPT !.interimTranscript = transcript],
                         "onTranscription", transcript)
          IN IF s3.waitingForNextFinal THEN pauseCommandTimeout(s3) ELSE s3
     ELSE s2

ErrorKinds == {"no-speech", "audio-capture", "network", "not-allowed"}
\* a list of restartable errors that also holds not-allowed
RecoverableErrors_WithNotAllowed == {"audio-capture", "network", "not-allowed"}
RecoverableErrors == {"audio-capture", "network"}

\* a handler that restarts through the backoff after an accepted no-speech
onerror_RestartOnNoSpeech(s, error) ==
  IF error = "no-speech"
  THEN IF DateNow - s.lastErrorTime < ERROR_COOLDOWN_MS
       THEN s
       ELSE restartRecognition([s EXCEPT !.lastErrorTime = DateNow])
  ELSE LET s1 == Call(s, "onError", <<error>>)
       IN IF error \in RecoverableErrors THEN restartRecognition(s1) ELSE s1
\* recognition.onerror
onerror(s, error) ==
  IF error = "no-speech"
  THEN IF DateNow - s.lastErrorTime < ERROR_COOLDOWN_MS
       THEN s
       ELSE [s EXCEPT !.lastErrorTime = DateNow]
  ELSE LET s1 == Call(s, "onError", <<error>>)
       IN IF error \in RecoverableErrors THEN restartRecognition(s1) ELSE s1

\* recognition.onend
onend(s) ==
  IF s.pendingRestart
  THEN start([s EXCEPT !.pendingRestart = FALSE])
  ELSE IF s.isListening /\ ~s.isPaused
  THEN setTimeout(s, "endRestart", END_RESTART_DELAY_MS, FALSE, 1)
  ELSE s

(***************************************************************************)
(* Timer callbacks                                                         *)
(***************************************************************************)
\* the restart after an engine end (lines 312-317)
endRestartCallback(s, t) ==
  LET s0 == [s EXCEPT !.endSeen = (t.x = 1)]
  IN IF s0.isListening /\ ~s0.isPaused THEN start(s0) ELSE s0

\* the inactivity watchdog (lines 340-350)
inactivityCallback(s) ==
  IF s.isListening /\ ~s.isPaused
  THEN setTimeout([stop(s) EXCEPT !.watchdogFired = TRUE],
                  "watchdogRestart", WATCHDOG_RESTART_DELAY_MS, FALSE, 0)
  ELSE s

\* the restart the watchdog schedules (lines 344-348)
watchdogRestartCallback(s) ==
  IF s.isListening /\ ~s.isPaused THEN start(s) ELSE s

\* the backoff restart (lines 375-388)
restartCallback(s) ==
  LET s0 == [s EXCEPT !.restartsFired = @ + 1]
      s1 == IF s0.recognition # Null THEN recognitionStop(s0) ELSE s0
      r == initializeSpeechRecognition(s1)
  IN IF r.ok
     THEN LET q == recognitionStart(r.s)
          IN IF q.ok THEN [q.s EXCEPT !.restartAttempts = @ + 1]
             ELSE Call(q.s, "onError", <<"restart">>)
     ELSE r.s

\* the command timeout (lines 453-469)
commandTimeoutCallback(s0) ==
  LET s == [s0 EXCEPT !.awaitNext = FALSE]
      s1 == IF s.countdownInterval
            THEN [clearTimeout(s, "countdownInterval")
                    EXCEPT !.countdownInterval = FALSE]
            ELSE s
  IN IF ~s1.isCommandComplete /\ s1.wakeWordDetected
     THEN resetToWakeWordListening(s1)
     ELSE s1

\* one tick of the countdown interval (lines 441-450); the interval t stays
\* armed unless the tick clears the handle the closure variable holds
countdownCallback(s, t) ==
  LET remainingTime == t.x - COUNTDOWN_STEP_MS
      s1 == [s EXCEPT !.timers =
               Append(@, [t EXCEPT !.due = COUNTDOWN_STEP_MS, !.x = remainingTime])]
  IN IF remainingTime <= 0
     THEN [clearTimeout(s1, "countdownInterval") EXCEPT !.countdownInterval = FALSE]
     ELSE s1

\* the retry of a start() made while stopping (line 661)
startRetryCallback(s, t) == start([s EXCEPT !.endSeen = (t.x = 1)])

\* the end of the stopping guard (lines 708-710)
stoppingClearCallback(s) == [s EXCEPT !.isStopping = FALSE]

(***************************************************************************)
(* Steps                                                                   *)
(***************************************************************************)
\* the capture state: flags, buffers, the time of the trigger, the timers
CaptureOf(s) ==
  [wakeWordDetected |-> s.wakeWordDetected,
   isCommandComplete |-> s.isCommandComplete,
   isProcessingCommand |-> s.isProcessingCommand,
   commandMode |-> s.commandMode,
   waitingForNextFinal |-> s.waitingForNextFinal,
   currentCommand |-> s.currentCommand, fullTranscript |-> s.fullTranscript,
   interimTranscript |-> s.interimTranscript, commandBuffer |-> s.commandBuffer,
   lastWakeWordTime |-> s.lastWakeWordTime,
   commandTimers |-> Cardinality(Pending(s, "commandTimeout"))]
\* what a step remembers of the state it starts in
PreOf(s) ==
  [isListening |-> s.isListening, isPaused |-> s.isPaused,
   isStopping |-> s.isStopping, recognition |-> s.recognition,
   pendingRestart |-> s.pendingRestart,
   restartAttempts |-> s.restartAttempts, lastErrorTime |-> s.lastErrorTime,
   restartTimers |-> Cardinality(Pending(s, "restartTimeout")),
   exhausted |-> s.exhausted,
   capture |-> CaptureOf(s)]
\* an end-restart timer after whose arming the application called stop() or
\* pause() is marked (x = 0), and so is a start-retry timer after whose
\* arming the application called stop(), setWakeWord() or setLanguage()
Answered(ts, op) ==
  [i \in 1..Len(ts) |->
     IF \/ ts[i].kind = "endRestart" /\ op \in {"stop", "pause"}
        \/ ts[i].kind = "startRetry" /\ op \in {"stop", "setWakeWord", "setLanguage"}
     THEN [ts[i] EXCEPT !.x = 0] ELSE ts[i]]
\* forget the observation of the previous step and note the state the step
\* starts in
Begin(s, op) ==
  [s EXCEPT !.lastOp = op, !.evTranscript = EmptyStr, !.evFinal = FALSE,
            !.calls = << >>, !.engineStarts = 0, !.engineStops = 0,
            !.startOnBusy = FALSE,
            !.entered = FALSE, !.scheduledDelay = 0, !.cycleEnded = FALSE,
            !.wasInCapture = InCapture(s),
            !.wasCooled = (DateNow - s.lastWakeWordTime > WAKE_WORD_COOLDOWN_MS),
            !.wasAwaiting = s.awaitNext,
            !.pre = PreOf(s), !.endSeen = FALSE]
\* a call of the application: it ends "no call since stop()", "no call since
\* the watchdog fired" and "no call since the wake word was heard alone"
BeginApi(s, op) ==
  [Begin(s, op) EXCEPT !.callerStopped = (op = "stop"), !.watchdogFired = FALSE,
                       !.awaitNext = FALSE, !.acts = @ + 1,
                       !.callerOff = IF op = "stop" THEN TRUE
                                     ELSE IF op = "start" THEN FALSE ELSE @,
                       !.timers = Answered(@, op)]
\* an event the engine emits by itself
BeginEvent(s, op) == [Begin(s, op) EXCEPT !.acts = @ + 1]
\* close the capture cycle when the step left command capture
Finish(s) ==
  [s EXCEPT !.cycleEnded = s.cycleOpen /\ ~InCapture(s),
            !.cycleOpen = s.cycleOpen /\ InCapture(s)]

Become(s) ==
  /\ hostSupported' = s.hostSupported
  /\ wakeWord' = s.wakeWord
  /\ language' = s.language
  /\ recognition' = s.recognition
  /\ recognitionLang' = s.recognitionLang
  /\ isListening' = s.isListening
  /\ isPaused' = s.isPaused
  /\ lastWakeWordTime' = s.lastWakeWordTime
  /\ currentCommand' = s.currentCommand
  /\ isCommandComplete' = s.isCommandComplete
  /\ wakeWordDetected' = s.wakeWordDetected
  /\ commandTimeout' = s.commandTimeout
  /\ fullTranscript' = s.fullTranscript
  /\ lastErrorTime' = s.lastErrorTime
  /\ isProcessingCommand' = s.isProcessingCommand
  /\ interimTranscript' = s.interimTranscript
  /\ restartTimeout' = s.restartTimeout
  /\ isStopping' = s.isStopping
  /\ pendingRestart' = s.pendingRestart
  /\ inactivityTimeout' = s.inactivityTimeout
  /\ commandBuffer' = s.commandBuffer
  /\ commandMode' = s.commandMode
  /\ countdownInterval' = s.countdownInterval
  /\ waitingForNextFinal' = s.waitingForNextFinal
  /\ restartAttempts' = s.restartAttempts
  /\ timers' = s.timers
  /\ oldEngines' = s.oldEngines
  /\ phase' = s.phase
  /\ acts' = s.acts
  /\ lastOp' = s.lastOp
  /\ evTranscript' = s.evTranscript
  /\ evFinal' = s.evFinal
  /\ calls' = s.calls
  /\ engineStarts' = s.engineStarts
  /\ engineStops' = s.engineStops
  /\ startOnBusy' = s.startOnBusy
  /\ entered' = s.entered
  /\ scheduledDelay' = s.scheduledDelay
  /\ restartsFired' = s.restartsFired
  /\ cycleOpen' = s.cycleOpen
  /\ cycleSignals' = s.cycleSignals
  /\ cycleEnded' = s.cycleEnded
  /\ callerStopped' = s.callerStopped
  /\ watchdogFired' = s.watchdogFired
  /\ exhausted' = s.exhausted
  /\ callerOff' = s.callerOff
  /\ wasInCapture' = s.wasInCapture
  /\ wasCooled' = s.wasCooled
  /\ awaitNext' = s.awaitNext
  /\ wasAwaiting' = s.wasAwaiting
  /\ pre' = s.pre
  /\ endSeen' = s.endSeen
  /\ options' = s.options
  /\ thrown' = s.thrown
  /\ handle' = s.handle

InitWakeWords == {<<"W">>}
SetWakeWordArgs == {<<" ", "C">>, <<" ">>}
Languages == {"en-US", "es-ES"}

\* options of createWakeWordDetection: wakeWord given or not
Option(w) == [given |-> TRUE, text |-> w]
NoOption == [given |-> FALSE, text |-> EmptyStr]
AllOptions == {NoOption} \cup {Option(w) : w \in Transcripts}
\* the state before createWakeWordDetection has run anything
NoPre ==
  [isListening |-> FALSE, isPaused |-> FALSE, isStopping |-> FALSE,
   recognition |-> Null, pendingRestart |-> FALSE, restartAttempts |-> 0,
   lastErrorTime |-> DateNow - ErrorHorizon, restartTimers |-> 0,
   exhausted |-> "no",
   capture |-> [wakeWordDetected |-> FALSE, isCommandComplete |-> FALSE,
                isProcessingCommand |-> FALSE, commandMode |-> FALSE,
                waitingForNextFinal |-> FALSE, currentCommand |-> EmptyStr,
                fullTranscript |-> EmptyStr, interimTranscript |-> EmptyStr,
                commandBuffer |-> EmptyStr,
                lastWakeWordTime |-> DateNow - WakeWordHorizon,
                commandTimers |-> 0]]
\* a check that lets the empty string through
wakeWordMissing_OnlyAbsent(opt) == ~opt.given
\* !options.wakeWord (line 34)
wakeWordMissing(opt) == ~opt.given \/ opt.text = EmptyStr
NoError == "none"
\* the returned object (lines 804-813)
PublicApi ==
  {"start", "stop", "pause", "resume", "setWakeWord", "setLanguage",
   "setLogLevel", "isSupported"}

\* the state after createWakeWordDetection(options) returned or threw, for
\* options drawn from opts
createWakeWordDetection(opts) ==
  /\ hostSupported \in BOOLEAN
  /\ options \in opts
  /\ thrown = (IF wakeWordMissing(options) THEN "Wake word is required" ELSE NoError)
  /\ handle = (IF wakeWordMissing(options) THEN {} ELSE PublicApi)
  /\ wakeWord = (IF wakeWordMissing(options) THEN EmptyStr ELSE ToLower(options.text))
  /\ language = "en-US"
  /\ recognition = Null
  /\ recognitionLang = "en-US"
  /\ isListening = FALSE
  /\ isPaused = FALSE
  /\ lastWakeWordTime = DateNow - WakeWordHorizon
  /\ currentCommand = EmptyStr
  /\ isCommandComplete = FALSE
  /\ wakeWordDetected = FALSE
  /\ commandTimeout = FALSE
  /\ fullTranscript = EmptyStr
  /\ lastErrorTime = DateNow - ErrorHorizon
  /\ isProcessingCommand = FALSE
  /\ interimTranscript = EmptyStr
  /\ restartTimeout = FALSE
  /\ isStopping = FALSE
  /\ pendingRestart = FALSE
  /\ inactivityTimeout = FALSE
  /\ commandBuffer = EmptyStr
  /\ commandMode = FALSE
  /\ countdownInterval = FALSE
  /\ waitingForNextFinal = FALSE
  /\ restartAttempts = 0
  /\ timers = << >>
  /\ oldEngines = 0
  /\ phase = 0
  /\ acts = 0
  /\ lastOp = "create"
  /\ evTranscript = EmptyStr
  /\ evFinal = FALSE
  /\ calls = << >>
  /\ engineStarts = 0
  /\ engineStops = 0
  /\ startOnBusy = FALSE
  /\ entered = FALSE
  /\ scheduledDelay = 0
  /\ restartsFired = 0
  /\ cycleOpen = FALSE
  /\ cycleSignals = 0
  /\ cycleEnded = FALSE
  /\ callerStopped = FALSE
  /\ watchdogFired = FALSE
  /\ exhausted = "no"
  /\ callerOff = TRUE
  /\ wasInCapture = FALSE
  /\ wasCooled = TRUE
  /\ awaitNext = FALSE
  /\ wasAwaiting = FALSE
  /\ pre = NoPre
  /\ endSeen = FALSE

\* the state after createWakeWordDetection({wakeWord: w}) returned
Init == createWakeWordDetection({Option(w) : w \in InitWakeWords})
\* the state after any call of createWakeWordDetection
InitCreate == createWakeWordDetection(AllOptions)

\* the application and the engine act at the instants of the tick, at most
\* MaxActs times per instant
AppActs == handle # {} /\ phase = 0 /\ acts < MaxActs

ApiStart == AppActs /\ Become(Finish(start(BeginApi(St, "start"))))
\* start() on a session that is not listening
ApiStartIdle == ~isListening /\ ApiStart
ApiStop == AppActs /\ Become(Finish(stop(BeginApi(St, "stop"))))
ApiPause == AppActs /\ Become(Finish(pause(BeginApi(St, "pause"))))
ApiResume == AppActs /\ Become(Finish(resume(BeginApi(St, "resume"))))
ApiSetWakeWord ==
  /\ AppActs
  /\ \E w \in SetWakeWordArgs :
       Become(Finish(setWakeWord(BeginApi(St, "setWakeWord"), w)))
ApiSetLanguage ==
  /\ AppActs
  /\ \E l \in Languages :
       Become(Finish(setLanguage(BeginApi(St, "setLanguage"), l)))

\* some engine handle of the session is delivering events
EngineActive == recognition \in {"running", "stopping"} \/ oldEngines > 0

EngineResult(heard) ==
  /\ AppActs
  /\ EngineActive
  /\ \E transcript \in heard, isFinal \in BOOLEAN :
       Become(Finish(onresult([BeginEvent(St, "onresult")
                                 EXCEPT !.evTranscript = transcript,
                                        !.evFinal = isFinal],
                              transcript, isFinal)))

EngineError(kinds) ==
  /\ AppActs
  /\ EngineActive
  /\ \E error \in kinds :
       Become(Finish(onerror([BeginEvent(St, "onerror")
                                EXCEPT !.evTranscript = <<error>>],
                             error)))

\* the current handle ends by itself
EngineEnd ==
  /\ recognition = "running"
  /\ AppActs
  /\ Become(Finish(onend([BeginEvent(St, "onend") EXCEPT !.recognition = "idle"])))

\* the current handle ends because it was told to stop
EngineStopped ==
  /\ recognition = "stopping"
  /\ Become(Finish(onend([Begin(St, "onend") EXCEPT !.recognition = "idle"])))

\* a superseded handle ends
OldEngineEnd ==
  /\ oldEngines > 0
  /\ Become(Finish(onend([Begin(St, "onend") EXCEPT !.oldEngines = @ - 1])))

(***************************************************************************)
(* Timers fire when due, in the order of their creation                    *)
(***************************************************************************)
DueTimers == {i \in 1..Len(timers) : timers[i].due = 0}
FirstDue == CHOOSE i \in DueTimers : \A j \in DueTimers : i <= j
RemoveAt(seq, i) == SubSeq(seq, 1, i - 1) \o SubSeq(seq, i + 1, Len(seq))
\* the state in which the callback of the first due timer starts to run
Fired(op) ==
  LET t == timers[FirstDue]
      s == [Begin(St, op) EXCEPT !.timers = RemoveAt(@, FirstDue)]
  IN IF t.held /\ t.kind # "countdownInterval" THEN [s EXCEPT ![t.kind] = FALSE]
     ELSE s
Fires(kind) == DueTimers # {} /\ timers[FirstDue].kind = kind

CommandTimeoutFires ==
  /\ Fires("commandTimeout")
  /\ Become(Finish(commandTimeoutCallback(Fired("commandTimeout"))))
CountdownFires ==
  /\ Fires("countdownInterval")
  /\ Become(Finish(countdownCallback(Fired("countdown"), timers[FirstDue])))
InactivityFires ==
  /\ Fires("inactivityTimeout")
  /\ Become(Finish(inactivityCallback(Fired("inactivity"))))
WatchdogRestartFires ==
  /\ Fires("watchdogRestart")
  /\ Become(Finish(watchdogRestartCallback(Fired("watchdogRestart"))))
RestartFires ==
  /\ Fires("restartTimeout")
  /\ Become(Finish(restartCallback(Fired("restart"))))
EndRestartFires ==
  /\ Fires("endRestart")
  /\ Become(Finish(endRestartCallback(Fired("endRestart"), timers[FirstDue])))
StartRetryFires ==
  /\ Fires("startRetry")
  /\ Become(Finish(startRetryCallback(Fired("startRetry"), timers[FirstDue])))
StoppingClearFires ==
  /\ Fires("stoppingClear")
  /\ Become(Finish(stoppingClearCallback(Fired("stoppingClear"))))

(***************************************************************************)
(* Time passes: up to the next due timer or the next instant at which the  *)
(* environment acts.  A due timer fires before time moves on, and an       *)
(* engine that was told to stop ends before time moves on.                 *)
(***************************************************************************)
Min(a, b) == IF a <= b THEN a ELSE b
Max(a, b) == IF a >= b THEN a ELSE b
RECURSIVE MinDue(_)
MinDue(ts) ==
  IF Len(ts) = 1 THEN Head(ts).due ELSE Min(Head(ts).due, MinDue(Tail(ts)))
\* no timestamp ages any further
Settled ==
  /\ lastWakeWordTime = DateNow - WakeWordHorizon
  /\ lastErrorTime = DateNow - ErrorHorizon
Elapse(s, d) ==
  LET e == [s EXCEPT !.timers = [i \in 1..Len(@) |-> [@[i] EXCEPT !.due = @ - d]],
                     !.lastWakeWordTime = Max(@ - d, DateNow - WakeWordHorizon),
                     !.lastErrorTime = Max(@ - d, DateNow - ErrorHorizon),
                     !.phase = (@ + d) % TickMs,
                     !.acts = 0]
  IN [e EXCEPT !.pre = PreOf(e)]
\* to the next tick or the next due timer; when a tick has passed without a
\* call or an engine event and nothing ages any more, the environment stays
\* silent until the next timer is due
TimeStep ==
  IF timers = << >> THEN TickMs - phase
  ELSE IF Settled /\ phase = 0 /\ acts = 0 THEN MinDue(timers)
  ELSE Min(TickMs - phase, MinDue(timers))
Tick ==
  /\ DueTimers = {}
  /\ recognition # "stopping"
  /\ oldEngines = 0
  /\ Become(Elapse(Begin(St, "tick"), TimeStep))

\* a few transcripts: a command, the wake word
HeardFew == {<<"c">>, <<"W">>}
\* transcripts without the wake word
HeardNoWakeWord == {<<"c">>}

\* command capture: every transcript, engine ends and automatic restarts,
\* stop() and start()
NextCapture ==
  \/ ApiStartIdle
  \/ ApiStop
  \/ EngineResult(Transcripts)
  \/ EngineEnd
  \/ EngineStopped
  \/ CommandTimeoutFires
  \/ CountdownFires
  \/ InactivityFires
  \/ WatchdogRestartFires
  \/ EndRestartFires
  \/ StartRetryFires
  \/ StoppingClearFires
  \/ Tick

SpecCapture == Init /\ [][NextCapture]_vars

\* the session: start(), stop(), changes of wake word and language, a few
\* transcripts, engine ends, the watchdog
NextSession ==
  \/ ApiStartIdle
  \/ ApiStop
  \/ ApiSetWakeWord
  \/ ApiSetLanguage
  \/ EngineResult(HeardFew)
  \/ EngineEnd
  \/ EngineStopped
  \/ CommandTimeoutFires
  \/ CountdownFires
  \/ InactivityFires
  \/ WatchdogRestartFires
  \/ EndRestartFires
  \/ StartRetryFires
  \/ StoppingClearFires
  \/ Tick

SpecSession == Init /\ [][NextSession]_vars

\* backoff: engine errors, transcripts without the wake word, engine ends,
\* stop() and start()
NextBackoff ==
  \/ ApiStartIdle
  \/ ApiStop
  \/ EngineResult(HeardNoWakeWord)
  \/ EngineError(ErrorKinds)
  \/ EngineEnd
  \/ EngineStopped
  \/ OldEngineEnd
  \/ InactivityFires
  \/ WatchdogRestartFires
  \/ RestartFires
  \/ EndRestartFires
  \/ StartRetryFires
  \/ StoppingClearFires
  \/ Tick

SpecBackoff == Init /\ [][NextBackoff]_vars

\* a session that the application pauses and resumes
NextPause ==
  \/ ApiStartIdle
  \/ ApiStop
  \/ ApiPause
  \/ ApiResume
  \/ EngineResult(HeardFew)
  \/ EngineEnd
  \/ EngineStopped
  \/ CommandTimeoutFires
  \/ CountdownFires
  \/ InactivityFires
  \/ WatchdogRestartFires
  \/ EndRestartFires
  \/ StartRetryFires
  \/ StoppingClearFires
  \/ Tick

SpecPause == Init /\ [][NextPause]_vars

\* a session that is paused while the recovery from errors is under way
NextPausedRecovery ==
  \/ ApiStartIdle
  \/ ApiPause
  \/ ApiResume
  \/ EngineError(RecoverableErrors)
  \/ EngineEnd
  \/ EngineStopped
  \/ OldEngineEnd
  \/ InactivityFires
  \/ WatchdogRestartFires
  \/ RestartFires
  \/ EndRestartFires
  \/ StoppingClearFires
  \/ Tick

SpecPausedRecovery == Init /\ [][NextPausedRecovery]_vars

\* the first call of the application
ApiStartFirst == lastOp = "create" /\ ApiStart

\* a session that the application starts and then leaves to itself
NextRecovery ==
  \/ ApiStartFirst
  \/ EngineResult(HeardNoWakeWord)
  \/ EngineError(RecoverableErrors)
  \/ EngineEnd
  \/ EngineStopped
  \/ OldEngineEnd
  \/ InactivityFires
  \/ WatchdogRestartFires
  \/ RestartFires
  \/ EndRestartFires
  \/ StoppingClearFires
  \/ Tick

SpecRecovery == Init /\ [][NextRecovery]_vars

\* time passes while the engine that was told to stop has not ended yet
TickStopping ==
  /\ DueTimers = {}
  /\ recognition = "stopping"
  /\ oldEngines = 0
  /\ Become(Elapse(Begin(St, "tick"), TimeStep))

\* stop() and start() with an engine that takes its time to end
NextStopping ==
  \/ ApiStartIdle
  \/ ApiStop
  \/ EngineResult(HeardNoWakeWord)
  \/ EngineStopped
  \/ InactivityFires
  \/ WatchdogRestartFires
  \/ StartRetryFires
  \/ StoppingClearFires
  \/ Tick
  \/ TickStopping

SpecStopping == Init /\ [][NextStopping]_vars

\* construction with any options, then start() and stop() and the watchdog
NextCreate ==
  \/ ApiStartIdle
  \/ ApiStop
  \/ EngineStopped
  \/ InactivityFires
  \/ WatchdogRestartFires
  \/ StartRetryFires
  \/ StoppingClearFires
  \/ Tick

SpecCreate == InitCreate /\ [][NextCreate]_vars

(***************************************************************************)
(* Claims about command capture                                           *)
(***************************************************************************)
ApiOps == {"start", "stop", "pause", "resume", "setWakeWord", "setLanguage"}
TimesCalled(cb) == Cardinality(Called(cb))
BuffersEmpty ==
  currentCommand = EmptyStr /\ fullTranscript = EmptyStr /\ interimTranscript = EmptyStr

\* C1: a capture cycle that ends by anything but a call of the application
\* has invoked exactly one of onCommand and onCommandTimeout
C1_ExactlyOneSignalPerCycle ==
  (cycleEnded /\ lastOp \notin ApiOps) => cycleSignals = 1

\* C2: a capture without a final transcript does not outlive commandTimeoutMs,
\* and the timeout that ends it invokes onCommandTimeout once and leaves the
\* detector awaiting the wake word with empty buffers
C2_TimeoutEndsCapture ==
  /\ InCapture(St) => DateNow - lastWakeWordTime <= commandTimeoutMs
  /\ (lastOp = "commandTimeout" /\ wasInCapture) =>
       (TimesCalled("onCommandTimeout") = 1 /\ ~InCapture(St) /\ BuffersEmpty)

\* C3: onWakeWordDetected is invoked exactly when a step enters command capture
C3_DetectedOncePerTrigger ==
  TimesCalled("onWakeWordDetected") = (IF entered THEN 1 ELSE 0)

\* the text after the first occurrence of word in text, compared without case
TextAfter(text, word) ==
  Substring(text, IndexOf(ToLower(text), word) + Len(word))
FollowedByText(text, word) ==
  Includes(ToLower(text), word) /\ Trim(TextAfter(text, word)) # EmptyStr

\* C4: awaiting the wake word with the cooldown elapsed, a final transcript
\* with text after the wake word invokes onCommand once, with that text
\* lower-cased and trimmed, and leaves the detector awaiting the wake word
C4_CommandAfterWakeWord ==
  (lastOp = "onresult" /\ evFinal /\ ~wasInCapture /\ wasCooled
     /\ FollowedByText(evTranscript, wakeWord)) =>
    /\ TimesCalled("onCommand") = 1
    /\ CalledWith("onCommand", ToLower(Trim(TextAfter(evTranscript, wakeWord))))
    /\ ~InCapture(St)

\* C5: the wake word alone invokes no onCommand, and the next final
\* transcript, when it is not blank and comes before the command timeout
\* fires, is passed trimmed and in its own casing to onCommand, once, and
\* leaves the detector awaiting the wake word
C5_NextFinalIsCommand ==
  /\ (entered /\ awaitNext) => TimesCalled("onCommand") = 0
  /\ (lastOp = "onresult" /\ evFinal /\ wasAwaiting
        /\ Trim(evTranscript) # EmptyStr) =>
       /\ TimesCalled("onCommand") = 1
       /\ CalledWith("onCommand", Trim(evTranscript))
       /\ ~InCapture(St)

(***************************************************************************)
(* Claims about the session and its timers                                 *)
(***************************************************************************)
\* C6: after stop(), while the application makes no further call, no step
\* invokes recognition.start()
C6_NoStartAfterStop == callerStopped => engineStarts = 0

SessionTimers ==
  {"commandTimeout", "countdownInterval", "restartTimeout", "inactivityTimeout"}
\* C7: when stop(), setWakeWord() or setLanguage() returns on a session with
\* an engine, no command timeout, countdown, backoff or inactivity timer is
\* pending
C7_CallCancelsTimers ==
  (lastOp \in {"stop", "setWakeWord", "setLanguage"} /\ recognition # Null) =>
    \A kind \in SessionTimers : Pending(St, kind) = {}

\* C8: the restart the inactivity watchdog schedules, when it runs with no
\* call of the application since the watchdog fired, invokes
\* recognition.start() and leaves the session listening
C8_WatchdogRestarts ==
  (lastOp = "watchdogRestart" /\ watchdogFired) => (isListening /\ engineStarts > 0)

(***************************************************************************)
(* Claims about the backoff                                                *)
(***************************************************************************)
\* the error of the step, when the step is an engine error
RecoverableErrorSeen == lastOp = "onerror" /\ evTranscript[1] \in RecoverableErrors

\* C9: a recoverable error below the cap schedules the restart with
\* RESTART_DELAY_MS doubled once per restart that ran since the last
\* transcript (1000, 2000, 4000, 8000, 16000); at the cap it stops the
\* session and schedules nothing
C9_BackoffDoubles ==
  /\ scheduledDelay # 0 =>
       /\ restartsFired < MAX_RESTART_ATTEMPTS
       /\ scheduledDelay = RESTART_DELAY_MS * 2 ^ restartsFired
  /\ (RecoverableErrorSeen /\ restartAttempts < MAX_RESTART_ATTEMPTS) =>
       /\ scheduledDelay # 0
       /\ Cardinality(Pending(St, "restartTimeout")) = 1
  /\ (RecoverableErrorSeen /\ restartAttempts = MAX_RESTART_ATTEMPTS) =>
       /\ ~isListening
       /\ scheduledDelay = 0
       /\ Pending(St, "restartTimeout") = {}

\* a recoverable error arrives after five restarts without a transcript
C9_Witness ==
  /\ RecoverableErrorSeen
  /\ restartsFired = MAX_RESTART_ATTEMPTS
  /\ restartAttempts = MAX_RESTART_ATTEMPTS
  /\ ~isListening

\* C10: restartAttempts stays within 0..MAX_RESTART_ATTEMPTS and is 0 after
\* every transcript event
C10_AttemptsBounded ==
  /\ restartAttempts \in 0..MAX_RESTART_ATTEMPTS
  /\ lastOp = "onresult" => restartAttempts = 0

\* the fifth restart has just run
C10_Witness == lastOp = "restart" /\ restartAttempts = MAX_RESTART_ATTEMPTS

(***************************************************************************)
(* Claims about capture state and the wake word                            *)
(***************************************************************************)
\* C11: whenever a capture is in progress the session is listening (the part
\* of the claim that needs no exception for a paused timeout)
C11_CaptureImpliesListening == InCapture(St) => isListening

\* C12: setWakeWord() ends the capture in progress without onCommand, and
\* onCommand is only invoked for a capture that a transcript containing the
\* wake word of that moment has entered since
C12_DiscardedCommandNotDelivered ==
  /\ lastOp = "setWakeWord" =>
       (~InCapture(St) /\ ~cycleOpen /\ TimesCalled("onCommand") = 0)
  /\ InCapture(St) => cycleOpen
  /\ entered => (lastOp = "onresult" /\ Includes(ToLower(Trim(evTranscript)), wakeWord))
  /\ TimesCalled("onCommand") > 0 =>
       (lastOp = "onresult" /\ (entered \/ wasInCapture))

\* setWakeWord() was called during a capture
C12_Witness == lastOp = "setWakeWord" /\ wasInCapture /\ wakeWord # EmptyStr

\* C13: when setWakeWord() returns every capture flag is false and every
\* capture buffer is empty
C13_SetWakeWordClearsCapture ==
  lastOp = "setWakeWord" =>
    /\ ~wakeWordDetected /\ ~isProcessingCommand /\ ~commandMode
    /\ ~waitingForNextFinal
    /\ BuffersEmpty /\ commandBuffer = EmptyStr

\* C14: with no capture in progress, a transcript without the wake word
\* invokes no callback and starts no capture
C14_SilentWithoutWakeWord ==
  (lastOp = "onresult" /\ ~wasInCapture
     /\ ~Includes(ToLower(Trim(evTranscript)), ToLower(wakeWord))) =>
    (calls = << >> /\ ~InCapture(St))

(***************************************************************************)
(* Claims about engine ends and engine errors                              *)
(***************************************************************************)
\* C15: the restart armed by an engine end of a listening session, when the
\* application called neither stop() nor pause() since that end, invokes
\* recognition.start() and finds the session listening
C15_EndIsRestarted ==
  (lastOp = "endRestart" /\ endSeen) => (isListening /\ engineStarts > 0)

\* the kind of the engine error the step handled
ErrorSeen(kinds) == lastOp = "onerror" /\ evTranscript[1] \in kinds
\* the step left the session, its backoff and its capture as they were
SessionUntouched ==
  /\ scheduledDelay = 0
  /\ Cardinality(Pending(St, "restartTimeout")) = pre.restartTimers
  /\ restartAttempts = pre.restartAttempts
  /\ isListening = pre.isListening
  /\ isPaused = pre.isPaused
  /\ InCapture(St) = wasInCapture
  /\ engineStarts = 0

\* C16: a no-speech error schedules no restart, keeps restartAttempts and
\* the session and capture state, and within ERROR_COOLDOWN_MS of the last
\* accepted one it invokes no onError and keeps lastErrorTime
C16_NoSpeechIsHarmless ==
  ErrorSeen({"no-speech"}) =>
    /\ SessionUntouched
    /\ DateNow - pre.lastErrorTime < ERROR_COOLDOWN_MS =>
         (TimesCalled("onError") = 0 /\ lastErrorTime = pre.lastErrorTime)

\* a no-speech error right after an accepted one, in a listening session
C16_Witness ==
  /\ ErrorSeen({"no-speech"})
  /\ DateNow - pre.lastErrorTime < ERROR_COOLDOWN_MS
  /\ isListening

\* C17: a no-speech error that comes ERROR_COOLDOWN_MS or more after the last
\* accepted one invokes onError and leaves the session listening as it was
C17_NoSpeechReported ==
  (ErrorSeen({"no-speech"}) /\ DateNow - pre.lastErrorTime >= ERROR_COOLDOWN_MS) =>
    (TimesCalled("onError") = 1 /\ isListening = pre.isListening)

\* C18: an error other than no-speech invokes onError once; audio-capture and
\* network leave exactly one backoff restart pending, or at the cap stop the
\* session; every other kind leaves the session and its backoff as they were
C18_ErrorsReportedOnce ==
  ErrorSeen(ErrorKinds \ {"no-speech"}) =>
    /\ TimesCalled("onError") = 1
    /\ CalledWith("onError", evTranscript)
    /\ IF evTranscript[1] \in {"audio-capture", "network"}
       THEN IF pre.restartAttempts >= MAX_RESTART_ATTEMPTS
            THEN ~isListening /\ Pending(St, "restartTimeout") = {}
            ELSE /\ Cardinality(Pending(St, "restartTimeout")) = 1
                 /\ scheduledDelay # 0
                 /\ isListening = pre.isListening
       ELSE SessionUntouched

\* not-allowed arrives in a listening session while a backoff restart is pending
C18_Witness ==
  /\ ErrorSeen({"not-allowed"})
  /\ isListening
  /\ pre.restartTimers = 1

(***************************************************************************)
(* Claims about construction and the wake word                             *)
(***************************************************************************)
\* C19: createWakeWordDetection throws 'Wake word is required' when the
\* wakeWord option is absent or empty; otherwise it returns the eight
\* methods, with no engine created or started and no timer armed; without a
\* handle nothing ever runs
C19_CreateValidates ==
  /\ lastOp = "create" =>
       IF ~options.given \/ options.text = EmptyStr
       THEN thrown = "Wake word is required" /\ handle = {}
       ELSE /\ thrown = "none"
            /\ handle = {"start", "stop", "pause", "resume", "setWakeWord",
                         "setLanguage", "setLogLevel", "isSupported"}
            /\ recognition = Null /\ ~isListening
            /\ engineStarts = 0 /\ timers = << >>
  /\ handle = {} => (lastOp \in {"create", "tick"} /\ timers = << >>)

\* the wakeWord option is given and empty
C19_Witness ==
  /\ lastOp = "create"
  /\ options.given /\ options.text = EmptyStr
  /\ thrown = "Wake word is required"

\* C20: the configured wake word of a session is never empty
C20_WakeWordNonEmpty == handle # {} => wakeWord # EmptyStr

(***************************************************************************)
(* Claims about the session's life cycle                                   *)
(***************************************************************************)
\* C21: on a host without an engine, start() on a session that is not
\* listening invokes onError once and leaves no engine handle, no timer and
\* a session that is not listening; isSupported() tells whether the host has
\* an engine
C21_UnsupportedHostIsInert ==
  /\ (lastOp = "start" /\ ~hostSupported /\ ~pre.isListening) =>
       /\ TimesCalled("onError") = 1
       /\ ~isListening /\ recognition = Null
       /\ timers = << >> /\ engineStarts = 0
  /\ isSupported(St) <=> hostSupported

\* start() was called on a host without an engine
C21_Witness ==
  lastOp = "start" /\ ~hostSupported /\ ~isSupported(St) /\ calls # << >>

\* C22: start() under the stopping guard invokes no recognition.start() and
\* arms a retry; the retry, when the application issued no stop since,
\* starts the engine and leaves the session listening
C22_DeferredStartHappens ==
  /\ (lastOp = "start" /\ pre.isStopping) =>
       (engineStarts = 0 /\ Pending(St, "startRetry") # {})
  /\ (lastOp = "startRetry" /\ endSeen) =>
       (engineStarts > 0 /\ recognition = "running" /\ isListening)

\* the session's life-cycle state at the start of the step
PreListening == pre.isListening /\ ~pre.isPaused /\ ~pre.isStopping
PrePaused == pre.isListening /\ pre.isPaused /\ ~pre.isStopping

\* C23: pause() outside Listening and resume() outside Paused call no engine
\* method and change no state; pause() and resume() never change the capture
\* state (capture flags, buffers, lastWakeWordTime, restartAttempts)
C23_PauseResumeFrame ==
  /\ (lastOp = "pause" /\ ~PreListening) =>
       (engineStops = 0 /\ engineStarts = 0 /\ PreOf(St) = pre)
  /\ (lastOp = "resume" /\ ~PrePaused) =>
       (engineStops = 0 /\ engineStarts = 0 /\ PreOf(St) = pre)
  /\ lastOp \in {"pause", "resume"} =>
       (CaptureOf(St) = pre.capture /\ restartAttempts = pre.restartAttempts)

\* C24: setWakeWord and setLanguage on a Listening session leave a pending
\* restart and an engine that is about to end; the engine end that finds the
\* pending restart clears it and
\* starts the engine, at once or through the retry of start(); the retry that
\* finds the engine ended leaves the session listening in the configured
\* language; setLanguage without an engine handle changes nothing but the
\* configured language
C24_PendingRestartRuns ==
  /\ (lastOp \in {"setWakeWord", "setLanguage"} /\ PreListening) =>
       (pendingRestart /\ engineStops > 0 /\ recognition = "stopping")
  /\ (lastOp = "onend" /\ pre.pendingRestart) =>
       /\ ~pendingRestart
       /\ \/ /\ engineStarts > 0 /\ isListening /\ recognition = "running"
             /\ recognitionLang = language
          \/ pre.isStopping /\ Pending(St, "startRetry") # {}
  /\ (lastOp = "startRetry" /\ endSeen /\ pre.recognition # "stopping") =>
       (isListening /\ recognition = "running" /\ recognitionLang = language)
  /\ (lastOp = "setLanguage" /\ pre.recognition = Null) =>
       (PreOf(St) = pre /\ engineStops = 0 /\ engineStarts = 0)

(***************************************************************************)
(* Claims about the extraction of the command text                         *)
(***************************************************************************)
LastIndexOf(text, word) ==
  CHOOSE i \in Occurrences(text, word) : \A j \in Occurrences(text, word) : j <= i
\* the lower-cased, trimmed text after the last occurrence of the word
AfterLast(text, word) ==
  Trim(Substring(ToLower(text), LastIndexOf(ToLower(text), word) + Len(word)))

\* C25: for a non-empty wake word and a transcript of the engine that
\* contains it, extractCommandText returns the lower-cased, trimmed text after
\* the last occurrence of the wake word
C25_ExtractsAfterWakeWord ==
  (/\ lastOp = "onresult"
   /\ wakeWord # EmptyStr
   /\ Includes(ToLower(evTranscript), wakeWord)) =>
    extractCommandText(St, evTranscript) = AfterLast(evTranscript, wakeWord)

StartOps == {"start", "startRetry", "endRestart", "watchdogRestart"}

\* C27: a start() that started the engine leaves every capture flag cleared,
\* and a listening session with no capture in progress and no command
\* timeout pending is not marked as processing a command
C27_StartLeavesCleanState ==
  /\ (lastOp \in StartOps /\ engineStarts > 0 /\ ~startOnBusy /\ isListening) =>
       /\ ~wakeWordDetected /\ ~isProcessingCommand /\ ~commandMode
       /\ ~waitingForNextFinal /\ ~isCommandComplete
  /\ (isListening /\ ~wakeWordDetected /\ Pending(St, "commandTimeout") = {}) =>
       ~isProcessingCommand

CaptureSignals == {"onTranscription", "onCommand", "onCommandTimeout"}

\* C28: a final transcript with the wake word that arrives with no capture in
\* progress and within the cooldown changes no capture flag, buffer or
\* lastWakeWordTime, arms no command timeout and invokes none of
\* onTranscription, onCommand and onCommandTimeout
C28_CooldownSuppresses ==
  (/\ lastOp = "onresult" /\ evFinal
   /\ Includes(ToLower(evTranscript), wakeWord)
   /\ ~wasInCapture /\ ~wasCooled) =>
    /\ CaptureOf(St) = pre.capture
    /\ Pending(St, "commandTimeout") = {}
    /\ \A cb \in CaptureSignals : TimesCalled(cb) = 0

\* C29: after an interim transcript has been processed while a capture is in
\* progress, a command timeout is pending for the full commandTimeoutMs
C29_InterimRearmsTimeout ==
  (lastOp = "onresult" /\ ~evFinal /\ wasInCapture) =>
    \E i \in Pending(St, "commandTimeout") : timers[i].due = commandTimeoutMs

\* C30: at most one command timeout and at most one inactivity timer are
\* pending, and each pending one is the timer the session holds the handle of
C30_OneTimerOfEachKind ==
  \A kind \in {"commandTimeout", "inactivityTimeout"} :
    /\ Cardinality(Pending(St, kind)) <= 1
    /\ \A i \in Pending(St, kind) : timers[i].held

\* a transcript armed the inactivity timer again, in place of the one that
\* start() had armed, and began a capture with its command timeout
C30_Witness ==
  /\ lastOp = "onresult" /\ pre.isListening /\ InCapture(St)
  /\ \E i \in Pending(St, "inactivityTimeout") :
       timers[i].due = INACTIVITY_TIMEOUT_MS
  /\ \E i \in Pending(St, "commandTimeout") : timers[i].due = commandTimeoutMs

(***************************************************************************)
(* Claims about recovery, pause and the idle session                       *)
(***************************************************************************)
\* C31: the first recoverable error after the session stopped for want of
\* restart attempts and start() started the engine again schedules a backoff
\* restart and leaves the session listening
C31_FreshBudgetAfterStart ==
  (/\ lastOp = "onerror"
   /\ evTranscript[1] \in {"audio-capture", "network"}
   /\ pre.exhausted = "restarted" /\ pre.isListening) =>
    (scheduledDelay > 0 /\ Pending(St, "restartTimeout") # {} /\ isListening)

\* C32: a step that is no call of the application and begins with the
\* session paused invokes no recognition.start()
C32_PausedStaysPaused ==
  (pre.isListening /\ pre.isPaused /\ lastOp \notin ApiOps) => engineStarts = 0

\* C33: with no call of the application after the first start(), no step of
\* the automatic recovery calls recognition.start() on a handle that is not
\* idle
C33_NoStartOnRunningEngine ==
  lastOp \in {"onend", "endRestart", "restart", "watchdogRestart"} => ~startOnBusy

\* C34: while the application has not called start() since its last stop()
\* or since construction and the session is not listening, setWakeWord and
\* setLanguage start no engine and leave the session not listening, and so
\* do the engine end that follows and the retry of start() this end has armed
C34_IdleStaysIdle ==
  (/\ callerOff /\ ~pre.isListening
   /\ \/ lastOp \in {"setWakeWord", "setLanguage", "onend"}
      \/ lastOp = "startRetry" /\ endSeen) =>
    (engineStarts = 0 /\ ~isListening)

====
